---- MODULE Spec2Model ----
(***************************************************************************)
(* Model of util/icon/mining_util.py: mining of ICON timing tables out of  *)
(* LOG.* files and their ingestion into the Elasticsearch index "icon".    *)
(*                                                                         *)
(* A Python str is a sequence of one-character strings, so that the        *)
(* tokenizer, the regular expressions and the number parsing are computed  *)
(* on the characters as the code computes them.  A text file is the        *)
(* sequence of its lines (the text split at "\n").                         *)
(***************************************************************************)
EXTENDS Integers, Sequences, FiniteSets, TLC

VARIABLES
    files,            \* os.walk: the file entries of the directory, in order
    fi,               \* log_mining: index of the file the loop is at
    pc,               \* log_mining: position in the code
    full_file,        \* log_mining: local variable full_file
    tables,           \* log_mining: local variable tables (after remove_formatting)
    ti,               \* log_mining: index of the table the loop is at
    ri,               \* log_mining: index of the row the loop is at
    latest_date,      \* log_mining: local variable latest_date
    experiment_name,  \* log_mining: local variable experiment_name
    indexed,          \* es.index calls made for the current file, with outcome
    logged,           \* logger calls made for the current file
    mined_dirs,       \* number of add_mined_dir calls
    exc,              \* exception that left log_mining ("" while none)
    sink_failures,    \* BadRequestErrors raised by the sink so far
    arg,              \* argument of the function under test (function specifications)
    ret,              \* its result
    op                \* which function has been applied ("" before the call)

vars == <<files, fi, pc, full_file, tables, ti, ri, latest_date, experiment_name,
          indexed, logged, mined_dirs, exc, sink_failures, arg, ret, op>>

mining_vars == <<files, fi, pc, full_file, tables, ti, ri, latest_date,
                 experiment_name, indexed, logged, mined_dirs, exc, sink_failures>>

-----------------------------------------------------------------------------
(* Bounds of the model *)

\* fractional digits a number token may carry (floats are kept as integers
\* scaled by 10^MaxFrac)
MaxFrac == 2

\* longest token row handed to line_to_dataclass (the schema has 13 fields)
MaxRowLen == 14

\* rows up to this length are drawn over every combination of pool tokens
MaxShortRow == 2

-----------------------------------------------------------------------------
(* Characters and strings *)

Digits == <<"0", "1", "2", "3", "4", "5", "6", "7", "8", "9">>

IsDigitChar(c) == \E i \in 1..Len(Digits) : Digits[i] = c

DigitVal(c) == (CHOOSE i \in 1..Len(Digits) : Digits[i] = c) - 1

\* the characters [\s] matches, among those of the model
IsSpace(c) == c \in {" ", "\t"}

Min(S) == CHOOSE x \in S : \A y \in S : x <= y

Max(S) == 0 - Min({0 - x : x \in S})

\* str.isdigit(): not empty and only digits
IsDigitStr(s) == Len(s) > 0 /\ \A i \in 1..Len(s) : IsDigitChar(s[i])

\* s[i:i+len(lit)] == lit
MatchAt(s, i, lit) ==
    /\ i >= 1
    /\ i + Len(lit) - 1 <= Len(s)
    /\ \A k \in 1..Len(lit) : s[i + k - 1] = lit[k]

EndsWith(s, lit) == Len(s) >= Len(lit) /\ MatchAt(s, Len(s) - Len(lit) + 1, lit)

StartsWith(s, lit) == MatchAt(s, 1, lit)

\* str.lstrip(chars)
LStrip(s, chars) ==
    LET keep == {i \in 1..Len(s) : s[i] \notin chars}
    IN  IF keep = {} THEN <<>> ELSE SubSeq(s, Min(keep), Len(s))

\* str.strip()
Strip(s) ==
    LET keep == {i \in 1..Len(s) : ~IsSpace(s[i])}
    IN  IF keep = {} THEN <<>> ELSE SubSeq(s, Min(keep), Max(keep))

\* str.split(sep) for a one-character separator
Split(s, sep) ==
    LET seps == SelectSeq([i \in 1..Len(s) |-> i], LAMBDA i : s[i] = sep)
        n == Len(seps)
        first(k) == IF k = 1 THEN 1 ELSE seps[k - 1] + 1
        last(k) == IF k = n + 1 THEN Len(s) ELSE seps[k] - 1
    IN  [k \in 1..(n + 1) |-> SubSeq(s, first(k), last(k))]

\* re.sub(r"[\s]+", "-", line)
SubWhitespace(line) ==
    LET keep == SelectSeq([i \in 1..Len(line) |-> i],
                          LAMBDA i : \/ ~IsSpace(line[i])
                                     \/ i = 1
                                     \/ ~IsSpace(line[i - 1]))
    IN  [k \in 1..Len(keep) |-> IF IsSpace(line[keep[k]]) THEN "-" ELSE line[keep[k]]]

RECURSIVE ToNat(_)
\* int() of a string of digits
ToNat(s) == IF s = <<>> THEN 0
            ELSE ToNat(SubSeq(s, 1, Len(s) - 1)) * 10 + DigitVal(s[Len(s)])

-----------------------------------------------------------------------------
(* Python values stored in a record field: a str, a float or an int.        *)
(* A float is kept exactly, as the integer v = value * Scale.               *)

Scale == 10 ^ MaxFrac

PyStr(s) == [t |-> "str", s |-> s, v |-> 0]

PyFloat(n) == [t |-> "float", s |-> <<>>, v |-> n]

PyInt(n) == [t |-> "int", s |-> <<>>, v |-> n]

\* s.replace(".", "", 1).isdigit(): digits with at most one "."
IsDecimal(s) ==
    LET dots == {i \in 1..Len(s) : s[i] = "."}
    IN  IF dots = {} THEN IsDigitStr(s)
        ELSE IsDigitStr(SubSeq(s, 1, Min(dots) - 1) \o SubSeq(s, Min(dots) + 1, Len(s)))

\* float(s) * Scale of a string IsDecimal accepts
DecimalValue(s) ==
    LET dots == {i \in 1..Len(s) : s[i] = "."}
        whole == IF dots = {} THEN s ELSE SubSeq(s, 1, Min(dots) - 1)
        frac == IF dots = {} THEN <<>> ELSE SubSeq(s, Min(dots) + 1, Len(s))
    IN  ToNat(whole) * Scale + ToNat(frac) * (10 ^ (MaxFrac - Len(frac)))

\* float(s) succeeds: an optional sign and a decimal number (the model's
\* tokens carry no exponent, underscore, "inf" or "nan")
FloatParses(s) ==
    IF s # <<>> /\ s[1] \in {"+", "-"} THEN IsDecimal(Tail(s)) ELSE IsDecimal(s)

\* float(s) * Scale where FloatParses(s)
FloatValue(s) ==
    IF s[1] = "-" THEN 0 - DecimalValue(Tail(s))
    ELSE IF s[1] = "+" THEN DecimalValue(Tail(s))
    ELSE DecimalValue(s)

-----------------------------------------------------------------------------
(* is_number_with_s, process_line *)

\* re.match(r"^\d+(\.\d+)?\(s\)$", element)
is_number_with_s(element) ==
    /\ EndsWith(element, <<"(", "s", ")">>)
    /\ LET body == SubSeq(element, 1, Len(element) - 3)
       IN  \/ IsDigitStr(body)
           \/ \E k \in 1..Len(body) :
                 /\ body[k] = "."
                 /\ IsDigitStr(SubSeq(body, 1, k - 1))
                 /\ IsDigitStr(SubSeq(body, k + 1, Len(body)))

process_line(line) ==
    LET line1 == SubWhitespace(line)
        line2 == IF StartsWith(line1, <<"L">>) THEN LStrip(line1, {"L", "-"}) ELSE line1
        elements == Split(line2, "-")
    IN  SelectSeq(elements,
                  LAMBDA elem : ~(\/ is_number_with_s(elem)
                                  \/ elem \in {<<" ">>, <<"#">>, <<>>}))

-----------------------------------------------------------------------------
(* MatchResultsICON, line_to_dataclass *)

\* fields(MatchResultsICON), in declaration order
attribute_names == <<"name", "calls", "t_min", "min_rank", "t_avg", "t_max",
                     "max_rank", "total_min", "total_min_rank", "total_max",
                     "total_max_rank", "total_avg", "pe">>

FieldNames == {attribute_names[i] : i \in 1..Len(attribute_names)}

\* MatchResultsICON with a default that is not empty: pe = [0]
MatchResultsICON_default_pe ==
    [f \in FieldNames |-> IF f = "pe" THEN <<PyInt(0)>> ELSE <<>>]

\* MatchResultsICON(): every field an empty list
MatchResultsICON == [f \in FieldNames |-> <<>>]

\* re.search(r"(\d+)m(\d+)s", value): the leftmost match, both groups greedy
MinSecMatches(value) ==
    {<<i, j, k>> \in (1..Len(value)) \X (1..Len(value)) \X (1..Len(value)) :
        /\ i < j /\ j + 1 < k
        /\ value[j] = "m" /\ value[k] = "s"
        /\ IsDigitStr(SubSeq(value, i, j - 1))
        /\ IsDigitStr(SubSeq(value, j + 1, k - 1))}

MinSecSearch(value) ==
    LET ms == MinSecMatches(value)
        i0 == Min({m[1] : m \in ms})
    IN  CHOOSE m \in ms : m[1] = i0

\* lines 268-276: the duration rule
DurationRule(value) ==
    IF EndsWith(value, <<"s">>)
    THEN LET stem == SubSeq(value, 1, Len(value) - 1)
         IN  IF IsDecimal(stem) THEN PyFloat(DecimalValue(stem))
             ELSE IF MinSecMatches(value) # {}
                  THEN LET m == MinSecSearch(value)
                           minutes == ToNat(SubSeq(value, m[1], m[2] - 1))
                           seconds == ToNat(SubSeq(value, m[2] + 1, m[3] - 1))
                       IN  PyFloat((minutes * 60 + seconds) * Scale)
                  ELSE PyStr(value)
    ELSE PyStr(value)

\* Coerce that empties the value float() rejects
Coerce_dropping(value) ==
    LET f == IF value.t = "float" THEN value.v ELSE FloatValue(value.s)
        a == IF f < 0 THEN 0 - f ELSE f
    IN  IF value.t = "str" /\ ~FloatParses(value.s) THEN PyStr(<<>>)
        ELSE IF a = 0 THEN PyInt(0) ELSE PyFloat(a)

\* lines 278-287: float coercion, absolute value, zero as int; a ValueError
\* of float() leaves the value as it is
Coerce(value) ==
    LET f == IF value.t = "float" THEN value.v ELSE FloatValue(value.s)
        a == IF f < 0 THEN 0 - f ELSE f
    IN  IF value.t = "str" /\ ~FloatParses(value.s) THEN value
        ELSE IF a = 0 THEN PyInt(0) ELSE PyFloat(a)

ConvertToken(value) == Coerce(DurationRule(value))

RECURSIVE ltd_loop_from_one(_, _, _)
\* ltd_loop with the positions counted from 1 (enumerate(line, 1)): token i
\* goes to field i + 1
ltd_loop_from_one(line, i, results_dataclass) ==
    IF i > Len(line) THEN [exc |-> "", rec |-> results_dataclass]
    ELSE IF i + 1 > Len(attribute_names)
    THEN [exc |-> "IndexError", rec |-> results_dataclass]
    ELSE ltd_loop_from_one(line, i + 1,
                           [results_dataclass EXCEPT ![attribute_names[i + 1]] =
                                                         Append(@, ConvertToken(line[i]))])

RECURSIVE ltd_loop(_, _, _)
\* the loop of line_to_dataclass from token i on; attribute_names[i] of a
\* fourteenth token raises IndexError
ltd_loop(line, i, results_dataclass) ==
    IF i > Len(line) THEN [exc |-> "", rec |-> results_dataclass]
    ELSE IF i > Len(attribute_names) THEN [exc |-> "IndexError", rec |-> results_dataclass]
    ELSE ltd_loop(line, i + 1,
                  [results_dataclass EXCEPT ![attribute_names[i]] =
                                                Append(@, ConvertToken(line[i]))])

line_to_dataclass(line) == ltd_loop(line, 1, MatchResultsICON)

-----------------------------------------------------------------------------
(* Table, isolate_table *)

\* width of the footer rule: pattern = r"-" * 165
FooterWidth == 165

Indices(seq) == [i \in 1..Len(seq) |-> i]

\* the first index from i on that holds no space (Len + 1 when none)
SkipSpaces(s, i) ==
    LET stop == {k \in i..Len(s) : s[k] # " "}
    IN  IF stop = {} THEN Len(s) + 1 ELSE Min(stop)

\* re.search(header_regex, e), header_regex = r"name +.*calls +t_min +min rank.*"
header_search(e) ==
    \E i \in 1..Len(e) :
        /\ MatchAt(e, i, <<"n", "a", "m", "e", " ">>)
        /\ \E j \in (i + 5)..Len(e) :
              /\ MatchAt(e, j, <<"c", "a", "l", "l", "s", " ">>)
              /\ LET k == SkipSpaces(e, j + 6)
                 IN  /\ MatchAt(e, k, <<"t", "_", "m", "i", "n", " ">>)
                     /\ MatchAt(e, SkipSpaces(e, k + 6),
                                <<"m", "i", "n", " ", "r", "a", "n", "k">>)

\* re.search(r"-" * 165, e)
footer_search(e) ==
    \E i \in 1..(Len(e) - FooterWidth + 1) :
        \A k \in 0..(FooterWidth - 1) : e[i + k] = "-"

\* line 166: the non-empty lines of the text
log_file_of(text) == SelectSeq(text, LAMBDA e : e # <<>>)

\* lines 169-176: indices of the header lines with 12 columns or more
header_lines_of(log_file) ==
    SelectSeq(Indices(log_file),
              LAMBDA i : /\ header_search(log_file[i])
                         /\ Len(process_line(log_file[i])) >= 12)

\* line 180
footer_lines_of(log_file) ==
    SelectSeq(Indices(log_file), LAMBDA i : footer_search(log_file[i]))

\* next_footer taking the last footer after the header, not the first
next_footer_last(footer_lines, start) ==
    LET later == {k \in 1..Len(footer_lines) : footer_lines[k] > start}
    IN  IF later = {} THEN 0 ELSE footer_lines[Max(later)]

\* line 191: next((f for f in footer_lines if f > start), None); 0 is None
next_footer(footer_lines, start) ==
    LET later == {k \in 1..Len(footer_lines) : footer_lines[k] > start}
    IN  IF later = {} THEN 0 ELSE footer_lines[Min(later)]

\* list.remove(x): without the first occurrence of x
ListRemove(list, x) ==
    LET k == Min({i \in 1..Len(list) : list[i] = x})
    IN  SubSeq(list, 1, k - 1) \o SubSeq(list, k + 1, Len(list))

RECURSIVE pair_loop_reusing(_, _, _, _)
\* pair_loop without footer_lines.remove(end): a footer stays available
pair_loop_reusing(header_lines, i, footer_lines, pairs) ==
    IF i > Len(header_lines) THEN pairs
    ELSE LET start == header_lines[i]
             end == next_footer(footer_lines, start)
         IN  IF end = 0 THEN pair_loop_reusing(header_lines, i + 1, footer_lines, pairs)
             ELSE pair_loop_reusing(header_lines, i + 1, footer_lines,
                                    Append(pairs, <<start, end>>))

RECURSIVE pair_loop(_, _, _, _)
\* lines 188-200: the <<header, footer>> index pairs of the tables, in order
pair_loop(header_lines, i, footer_lines, pairs) ==
    IF i > Len(header_lines) THEN pairs
    ELSE LET start == header_lines[i]
             end == next_footer(footer_lines, start)
         IN  IF end = 0 THEN pair_loop(header_lines, i + 1, footer_lines, pairs)
             ELSE pair_loop(header_lines, i + 1, ListRemove(footer_lines, end),
                            Append(pairs, <<start, end>>))

\* indices (in log_file) of the lines of the body log_file[start + 3 : end]
BodyIndices(pair) == (pair[1] + 3)..(pair[2] - 1)

\* Table(lines): the lines stripped; typ is the Python type of the lines
Table(lines) == [typ |-> "str", lines |-> [i \in 1..Len(lines) |-> Strip(lines[i])]]

\* the pairs isolate_table builds its tables from (<<>> also when it returns None)
isolate_pairs(text) ==
    LET log_file == log_file_of(text)
        header_lines == header_lines_of(log_file)
        footer_lines == footer_lines_of(log_file)
    IN  IF header_lines = <<>> \/ footer_lines = <<>> THEN <<>>
        ELSE pair_loop(header_lines, 1, footer_lines, <<>>)

\* isolate_table(text, header_regex): none stands for the return of None
isolate_table(text) ==
    LET log_file == log_file_of(text)
        pairs == isolate_pairs(text)
    IN  IF header_lines_of(log_file) = <<>> \/ footer_lines_of(log_file) = <<>>
        THEN [none |-> TRUE, tables |-> <<>>]
        ELSE [none |-> FALSE,
              tables |-> [k \in 1..Len(pairs) |->
                            Table(SubSeq(log_file, pairs[k][1] + 3, pairs[k][2] - 1))]]

-----------------------------------------------------------------------------
(* remove_formatting *)

\* line 223: the number of values of the dataclass
row_length_ok(line) == Len(line) = 13 \/ Len(line) = 12

RECURSIVE rf_loop_clearing(_, _)
\* rf_loop assigning table.lines before the lines are processed: the table
\* whose line raises is left without rows
rf_loop_clearing(tbls, k) ==
    IF k > Len(tbls) THEN [exc |-> "", tables |-> tbls]
    ELSE IF tbls[k].typ = "list" /\ tbls[k].lines # <<>>
    THEN [exc |-> "TypeError",
          tables |-> [tbls EXCEPT ![k] = [typ |-> "list", lines |-> <<>>]]]
    ELSE LET processed_lines == [i \in 1..Len(tbls[k].lines) |->
                                    process_line(tbls[k].lines[i])]
             new_lines == SelectSeq(processed_lines, row_length_ok)
         IN  rf_loop_clearing([tbls EXCEPT ![k] = [typ |-> "list", lines |-> new_lines]],
                              k + 1)

RECURSIVE rf_loop(_, _)
\* lines 217-228, from table k on: re.sub in process_line raises TypeError for
\* a line that is a list; the tables before k are already replaced in place
rf_loop(tbls, k) ==
    IF k > Len(tbls) THEN [exc |-> "", tables |-> tbls]
    ELSE IF tbls[k].typ = "list" /\ tbls[k].lines # <<>>
    THEN [exc |-> "TypeError", tables |-> tbls]
    ELSE LET processed_lines == [i \in 1..Len(tbls[k].lines) |->
                                    process_line(tbls[k].lines[i])]
             new_lines == SelectSeq(processed_lines, row_length_ok)
         IN  rf_loop([tbls EXCEPT ![k] = [typ |-> "list", lines |-> new_lines]], k + 1)

remove_formatting(tbls) == rf_loop(tbls, 1)

\* the lines remove_formatting logs as removed, over all tables
removed_lines(tbls) ==
    LET dropped(k) == {i \in 1..Len(tbls[k].lines) :
                          ~row_length_ok(process_line(tbls[k].lines[i]))}
    IN  UNION {{<<k, i>> : i \in dropped(k)} : k \in 1..Len(tbls)}

-----------------------------------------------------------------------------
(* collect_time_stamp, get_experiment_name *)

UpperCase == <<"A", "B", "C", "D", "E", "F", "G", "H", "I", "J", "K", "L",
             "M", "N", "O", "P", "Q", "R", "S", "T", "U", "V", "W", "X", "Y",
             "Z">>

LowerCase == <<"a", "b", "c", "d", "e", "f", "g", "h", "i", "j", "k", "l",
             "m", "n", "o", "p", "q", "r", "s", "t", "u", "v", "w", "x", "y",
             "z">>

IsLetter(c) == \E i \in 1..Len(UpperCase) : UpperCase[i] = c \/ LowerCase[i] = c

\* \w
IsWordChar(c) == IsLetter(c) \/ IsDigitChar(c) \/ c = "_"

\* str.lower()
Lower(s) ==
    [i \in 1..Len(s) |->
        IF \E k \in 1..Len(UpperCase) : UpperCase[k] = s[i]
        THEN LowerCase[CHOOSE k \in 1..Len(UpperCase) : UpperCase[k] = s[i]]
        ELSE s[i]]

\* length of a match of date_pattern
DateLen == 32

\* date_pattern matches at i:
\* r"\b\w{3} \d{2} \w{3} \d{4} \d{2}:\d{2}:\d{2} [APM]{2} \w{4}\b"
date_match_at(s, i) ==
    LET c(k) == s[i + k - 1]
        w(k) == IsWordChar(c(k))
        d(k) == IsDigitChar(c(k))
    IN  /\ i + DateLen - 1 <= Len(s)
        \* the literal characters of the pattern
        /\ c(4) = " " /\ c(7) = " " /\ c(11) = " " /\ c(16) = " "
        /\ c(19) = ":" /\ c(22) = ":" /\ c(25) = " " /\ c(28) = " "
        \* \b\w{3}, \d{2}, \w{3}, \d{4}
        /\ (i = 1 \/ ~IsWordChar(s[i - 1]))
        /\ w(1) /\ w(2) /\ w(3)
        /\ d(5) /\ d(6)
        /\ w(8) /\ w(9) /\ w(10)
        /\ d(12) /\ d(13) /\ d(14) /\ d(15)
        \* \d{2}:\d{2}:\d{2}
        /\ d(17) /\ d(18) /\ d(20) /\ d(21) /\ d(23) /\ d(24)
        \* [APM]{2}, \w{4}\b
        /\ c(26) \in {"A", "P", "M"} /\ c(27) \in {"A", "P", "M"}
        /\ w(29) /\ w(30) /\ w(31) /\ w(32)
        /\ (i + DateLen > Len(s) \/ ~IsWordChar(s[i + DateLen]))

RECURSIVE findall_dates(_, _)
\* re.findall(date_pattern, s) from position i on: leftmost, not overlapping
findall_dates(s, i) ==
    LET starts == {k \in i..Len(s) : date_match_at(s, k)}
        k0 == Min(starts)
    IN  IF starts = {} THEN <<>>
        ELSE <<SubSeq(s, k0, k0 + DateLen - 1)>> \o findall_dates(s, k0 + DateLen)

RECURSIVE FlatMap(_, _)
FlatMap(F(_), seq) == IF seq = <<>> THEN <<>> ELSE F(Head(seq)) \o FlatMap(F, Tail(seq))

WeekdayNames == {<<"m", "o", "n">>, <<"t", "u", "e">>, <<"w", "e", "d">>,
                <<"t", "h", "u">>, <<"f", "r", "i">>, <<"s", "a", "t">>,
                <<"s", "u", "n">>}

MonthNames == <<<<"j", "a", "n">>, <<"f", "e", "b">>, <<"m", "a", "r">>,
              <<"a", "p", "r">>, <<"m", "a", "y">>, <<"j", "u", "n">>, <<"j",
              "u", "l">>, <<"a", "u", "g">>, <<"s", "e", "p">>, <<"o", "c",
              "t">>, <<"n", "o", "v">>, <<"d", "e", "c">>>>

\* the zone names %Z accepts: utc, gmt and time.tzname, here of the Swiss
\* hosts the logs come from (the test suite parses "CEST")
ZoneNames == {<<"u", "t", "c">>, <<"g", "m", "t">>, <<"c", "e", "t">>, <<"c", "e", "s", "t">>}

DaysInMonth(year, month) ==
    IF month = 2
    THEN IF year % 4 = 0 /\ (year % 100 # 0 \/ year % 400 = 0) THEN 29 ELSE 28
    ELSE IF month \in {4, 6, 9, 11} THEN 30 ELSE 31

\* datetime.strptime(date, date_format), date_format = "%a %d %b %Y %I:%M:%S %p %Z",
\* of a string date_pattern matched: a naive datetime <<Y, M, D, h, m, s>>,
\* or ValueError
strptime(date) ==
    LET low == Lower(date)
        num(a, b) == ToNat(SubSeq(date, a, b))
        mon == SubSeq(low, 8, 10)
        months == {k \in 1..Len(MonthNames) : MonthNames[k] = mon}
        month == CHOOSE k \in months : TRUE
        hour12 == num(17, 18)
        pm == SubSeq(low, 26, 27) = <<"p", "m">>
        hour == IF pm THEN (IF hour12 = 12 THEN 12 ELSE hour12 + 12)
                ELSE (IF hour12 = 12 THEN 0 ELSE hour12)
        valid == /\ SubSeq(low, 1, 3) \in WeekdayNames
                 /\ months # {}
                 /\ num(5, 6) >= 1
                 /\ num(5, 6) <= DaysInMonth(num(12, 15), month)
                 /\ num(12, 15) >= 1
                 /\ hour12 \in 1..12
                 /\ num(20, 21) <= 59
                 /\ num(23, 24) <= 59
                 /\ SubSeq(low, 26, 27) \in {<<"a", "m">>, <<"p", "m">>}
                 /\ SubSeq(low, 29, 32) \in ZoneNames
    IN  IF valid
        THEN [exc |-> "",
              dt |-> <<num(12, 15), month, num(5, 6), hour, num(20, 21), num(23, 24)>>]
        ELSE [exc |-> "ValueError", dt |-> <<>>]

\* datetime comparison a < b
DtLess(a, b) ==
    \E k \in 1..Len(a) : a[k] < b[k] /\ \A j \in 1..(k - 1) : a[j] = b[j]

\* collect_time_stamp(file): the list of datetimes (typ "list"), or the str
\* strftime gives of the current time when the text holds no date (typ "str"),
\* or the ValueError of strptime
collect_time_stamp(text) ==
    LET dates == FlatMap(LAMBDA line : findall_dates(line, 1), text)
        parsed == [k \in 1..Len(dates) |-> strptime(dates[k])]
    IN  IF dates = <<>> THEN [exc |-> "", typ |-> "str", date_objects |-> <<>>]
        ELSE IF \E k \in 1..Len(parsed) : parsed[k].exc # ""
        THEN [exc |-> "ValueError", typ |-> "list", date_objects |-> <<>>]
        ELSE [exc |-> "", typ |-> "list",
              date_objects |-> [k \in 1..Len(parsed) |-> parsed[k].dt]]

\* lines 360-376: all_dates holds one element, the list collect_time_stamp
\* returned, so that sort() orders nothing and all_dates[-1] is that list; its
\* first element is taken.  The str of the fallback does not parse (its %Z is
\* empty) and is replaced by datetime.now(), here now.
select_latest_date(date_objects, typ, now) ==
    LET all_dates == <<date_objects>>
        latest == all_dates[Len(all_dates)]
    IN  IF typ = "list" THEN latest[1] ELSE now

job_name_key == <<"S", "L", "U", "R", "M", "_", "J", "O", "B", "_", "N", "A",
                "M", "E", "=">>

\* get_experiment_name: re.search(r"SLURM_JOB_NAME=(.*)", full_file), stripped
get_experiment_name(text) ==
    LET hit(line) == {i \in 1..Len(line) : MatchAt(line, i, job_name_key)}
        lines == {k \in 1..Len(text) : hit(text[k]) # {}}
        line == text[Min(lines)]
    IN  IF lines = {} THEN <<>>
        ELSE Strip(SubSeq(line, Min(hit(line)) + Len(job_name_key), Len(line)))

-----------------------------------------------------------------------------
(* The lines and the files of the model *)

\* "name a b c d e f g calls t_min min rank"
HeaderLine ==
    <<"n", "a", "m", "e", " ", "a", " ", "b", " ", "c", " ", "d", " ", "e", 
    " ", "f", " ", "g", " ", "c", "a", "l", "l", "s", " ", "t", "_", "m", "i",
    "n", " ", "m", "i", "n", " ", "r", "a", "n", "k">>

\* "name calls t_min min rank"
ShortHeaderLine ==
    <<"n", "a", "m", "e", " ", "c", "a", "l", "l", "s", " ", "t", "_", "m",
    "i", "n", " ", "m", "i", "n", " ", "r", "a", "n", "k">>

\* "(s) (s)"
UnitsLine ==
    <<"(", "s", ")", " ", "(", "s", ")">>

\* the rule that closes a table: 165 dashes
FooterLine == [i \in 1..FooterWidth |-> "-"]

\* a header line that also holds a rule
HeaderRuleLine == HeaderLine \o <<" ">> \o FooterLine

\* "x y"
OtherLine ==
    <<"x", " ", "y">>

\* "a 1 2 3 4 5 6 7 8 9 1 2"
RowA ==
    <<"a", " ", "1", " ", "2", " ", "3", " ", "4", " ", "5", " ", "6", " ",
    "7", " ", "8", " ", "9", " ", "1", " ", "2">>

\* " L b 1  2s 3 1m2s 5 6 7 8 9 1 2 3"
RowB ==
    <<" ", "L", " ", "b", " ", "1", " ", " ", "2", "s", " ", "3", " ", "1",
    "m", "2", "s", " ", "5", " ", "6", " ", "7", " ", "8", " ", "9", " ", "1",
    " ", "2", " ", "3">>

\* "c 0 2 3 4 5 6 7 8 9 1 2"
RowC ==
    <<"c", " ", "0", " ", "2", " ", "3", " ", "4", " ", "5", " ", "6", " ",
    "7", " ", "8", " ", "9", " ", "1", " ", "2">>

\* "e 1 2.5(s) 3 4 5 6 7 8 9 1 2 3 4"
RowS ==
    <<"e", " ", "1", " ", "2", ".", "5", "(", "s", ")", " ", "3", " ", "4", 
    " ", "5", " ", "6", " ", "7", " ", "8", " ", "9", " ", "1", " ", "2", " ",
    "3", " ", "4">>

\* "d 1 2"
RowBad ==
    <<"d", " ", "1", " ", "2">>

\* "Sun 15 Oct 2023 01:18:54 PM CEST"
DateEarly ==
    <<"S", "u", "n", " ", "1", "5", " ", "O", "c", "t", " ", "2", "0", "2",
    "3", " ", "0", "1", ":", "1", "8", ":", "5", "4", " ", "P", "M", " ", "C",
    "E", "S", "T">>

\* "at Mon 16 Oct 2023 09:00:00 AM CEST."
DateLate ==
    <<"a", "t", " ", "M", "o", "n", " ", "1", "6", " ", "O", "c", "t", " ",
    "2", "0", "2", "3", " ", "0", "9", ":", "0", "0", ":", "0", "0", " ", "A",
    "M", " ", "C", "E", "S", "T", ".">>

\* "Xyz 15 Oct 2023 01:18:54 PM CEST"
DateBad ==
    <<"X", "y", "z", " ", "1", "5", " ", "O", "c", "t", " ", "2", "0", "2",
    "3", " ", "0", "1", ":", "1", "8", ":", "5", "4", " ", "P", "M", " ", "C",
    "E", "S", "T">>

\* "SLURM_JOB_NAME= x1 "
JobLine ==
    <<"S", "L", "U", "R", "M", "_", "J", "O", "B", "_", "N", "A", "M", "E",
    "=", " ", "x", "1", " ">>

\* "LOG.none"
LogNone ==
    <<"L", "O", "G", ".", "n", "o", "n", "e">>

\* "LOG.nofooter"
LogNoFooter ==
    <<"L", "O", "G", ".", "n", "o", "f", "o", "o", "t", "e", "r">>

\* "LOG.one"
LogOne ==
    <<"L", "O", "G", ".", "o", "n", "e">>

\* "LOG.two"
LogTwo ==
    <<"L", "O", "G", ".", "t", "w", "o">>

\* "LOG.single"
LogSingle ==
    <<"L", "O", "G", ".", "s", "i", "n", "g", "l", "e">>

\* "LOG.nodate"
LogNoDate ==
    <<"L", "O", "G", ".", "n", "o", "d", "a", "t", "e">>

\* "LOG.early"
LogEarlyFooter ==
    <<"L", "O", "G", ".", "e", "a", "r", "l", "y">>

\* "LOG.baddate"
LogBadDate ==
    <<"L", "O", "G", ".", "b", "a", "d", "d", "a", "t", "e">>

\* "LOG.locked"
LogLocked ==
    <<"L", "O", "G", ".", "l", "o", "c", "k", "e", "d">>

\* "notes.txt"
Notes ==
    <<"n", "o", "t", "e", "s", ".", "t", "x", "t">>

FileNames == {LogNone, LogNoFooter, LogOne, LogTwo, LogSingle, LogNoDate,
              LogEarlyFooter, LogBadDate, LogLocked, Notes}

\* the text of each readable file
FileText(name) ==
    CASE name = LogNone -> <<DateEarly, RowA>>
      [] name = LogNoFooter -> <<HeaderLine, UnitsLine, UnitsLine, RowA, RowB>>
      [] name = LogOne -> <<DateEarly, JobLine, <<>>, DateLate, HeaderLine, UnitsLine,
                            UnitsLine, RowA, RowB, RowBad, RowC, FooterLine>>
      [] name = LogTwo -> <<DateLate, DateEarly, HeaderLine, UnitsLine, UnitsLine, RowA,
                            RowB, RowC, FooterLine, OtherLine, HeaderLine, UnitsLine,
                            UnitsLine, RowC, RowS, FooterLine>>
      [] name = LogSingle -> <<DateEarly, HeaderLine, UnitsLine, UnitsLine, RowA, RowBad,
                               FooterLine>>
      [] name = LogNoDate -> <<HeaderLine, UnitsLine, UnitsLine, RowC, RowB, FooterLine>>
      [] name = LogEarlyFooter -> <<FooterLine, HeaderLine, UnitsLine, UnitsLine, RowA>>
      [] name = LogBadDate -> <<DateBad, HeaderLine, UnitsLine, UnitsLine, RowA, RowB,
                                FooterLine>>
      [] OTHER -> <<OtherLine>>

\* the file system log_mining runs on: every listed file exists, LOG.locked
\* cannot be read
FileSystem == [name \in FileNames |->
                  [exists |-> TRUE, readable |-> name # LogLocked, text |-> FileText(name)]]

\* the values datetime.now() may return
Clock == {<<2024, 1, 1, 0, 0, 0>>, <<2024, 1, 1, 0, 0, 1>>}

\* files of a directory
MaxFiles == 2

\* BadRequestErrors the sink raises in one run
MaxSinkFailures == 2

\* the listings os.walk may give: distinct file names, in any order
Listings == {l \in UNION {[1..n -> FileNames] : n \in 1..MaxFiles} :
                \A i, j \in 1..Len(l) : i # j => l[i] # l[j]}

-----------------------------------------------------------------------------
(* read_logfile, log_mining *)

\* read_logfile(file_path)
read_logfile(file_path) ==
    LET f == FileSystem[file_path]
    IN  IF ~f.exists THEN [exc |-> "FileNotFoundError", text |-> <<>>]
        ELSE IF ~f.readable THEN [exc |-> "PermissionError", text |-> <<>>]
        ELSE [exc |-> "", text |-> f.text]

\* line 344: filename.startswith("LOG.")
is_log_file(filename) == StartsWith(filename, <<"L", "O", "G", ".">>)

\* line 383: table.lines[1:][0] == "wrt_output" compares a token row, a list,
\* with a str: never equal
is_sentinel(row) == FALSE

\* lines 385-395: where the loops stand after the row r of table t
next_row(tbls, t, r) ==
    IF r < Len(tbls[t].lines) THEN [pc |-> "row", ti |-> t, ri |-> r + 1]
    ELSE [pc |-> "table", ti |-> t + 1, ri |-> r]

\* after_bad_request with break in the place of continue: the rest of the
\* table is left out
after_bad_request_break(tbls, t, r) == [pc |-> "table", ti |-> t + 1, ri |-> r]

\* lines 393-395: a BadRequestError is logged and the loop continues
after_bad_request(tbls, t, r) == next_row(tbls, t, r)

\* lines 386-389: the document of a row
document_of(line, date, experiment) ==
    [record |-> line_to_dataclass(line).rec, time_stamp |-> date,
     experiment |-> experiment]

MiningInit ==
    /\ files \in Listings
    /\ fi = 1
    /\ pc = "files"
    /\ full_file = [bound |-> FALSE, text |-> <<>>]
    /\ tables = <<>>
    /\ ti = 0
    /\ ri = 0
    /\ latest_date = <<>>
    /\ experiment_name = <<>>
    /\ indexed = <<>>
    /\ logged = <<>>
    /\ mined_dirs = 0
    /\ exc = ""
    /\ sink_failures = 0

Init == MiningInit /\ arg = <<>> /\ ret = <<>> /\ op = ""

\* line 344: a file that is no LOG. file is passed over
SkipFile ==
    /\ pc = "files" /\ fi <= Len(files)
    /\ ~is_log_file(files[fi])
    /\ fi' = fi + 1
    /\ UNCHANGED <<files, pc, full_file, tables, ti, ri, latest_date, experiment_name,
                   indexed, logged, mined_dirs, exc, sink_failures, arg, ret, op>>

\* lines 349-352: read_logfile; its exception is logged, full_file is not assigned
ReadFile ==
    /\ pc = "files" /\ fi <= Len(files)
    /\ is_log_file(files[fi])
    /\ LET r == read_logfile(files[fi])
       IN  /\ full_file' = IF r.exc = "" THEN [bound |-> TRUE, text |-> r.text]
                           ELSE full_file
           /\ logged' = IF r.exc = "" THEN <<>> ELSE <<"error: could not read file">>
    /\ indexed' = <<>>
    /\ pc' = "mine"
    /\ UNCHANGED <<files, fi, tables, ti, ri, latest_date, experiment_name,
                   mined_dirs, exc, sink_failures, arg, ret, op>>

\* line 353: full_file is read before any assignment
MineUnbound ==
    /\ pc = "mine"
    /\ ~full_file.bound
    /\ exc' = "UnboundLocalError"
    /\ pc' = "raised"
    /\ UNCHANGED <<files, fi, full_file, tables, ti, ri, latest_date, experiment_name,
                   indexed, logged, mined_dirs, sink_failures, arg, ret, op>>

\* lines 353-356: isolate_table returns None and the loop over the files is left
MineNoTable ==
    /\ pc = "mine"
    /\ full_file.bound
    /\ isolate_table(full_file.text).none
    /\ logged' = logged \o <<"error: no headers or footers", "info: no result table">>
    /\ pc' = "done"
    /\ UNCHANGED <<files, fi, full_file, tables, ti, ri, latest_date, experiment_name,
                   indexed, mined_dirs, exc, sink_failures, arg, ret, op>>

\* lines 357-361: the tables are normalized, then strptime raises ValueError
MineBadDate ==
    /\ pc = "mine"
    /\ full_file.bound
    /\ LET result == isolate_table(full_file.text)
       IN  /\ ~result.none
           /\ collect_time_stamp(full_file.text).exc # ""
           /\ tables' = remove_formatting(result.tables).tables
           /\ logged' = logged \o [k \in 1..Cardinality(removed_lines(result.tables)) |->
                                     "info: removed line"]
    /\ exc' = "ValueError"
    /\ pc' = "raised"
    /\ UNCHANGED <<files, fi, full_file, ti, ri, latest_date, experiment_name,
                   indexed, mined_dirs, sink_failures, arg, ret, op>>

\* lines 357-379: tables, latest_date and experiment_name of the file
MineTables ==
    /\ pc = "mine"
    /\ full_file.bound
    /\ LET result == isolate_table(full_file.text)
           stamps == collect_time_stamp(full_file.text)
       IN  /\ ~result.none
           /\ stamps.exc = ""
           /\ tables' = remove_formatting(result.tables).tables
           /\ logged' = logged \o [k \in 1..Cardinality(removed_lines(result.tables)) |->
                                     "info: removed line"]
           /\ \E now \in Clock :
                 latest_date' = select_latest_date(stamps.date_objects, stamps.typ, now)
    /\ experiment_name' = get_experiment_name(full_file.text)
    /\ ti' = 1
    /\ pc' = "table"
    /\ UNCHANGED <<files, fi, full_file, ri, indexed, mined_dirs, exc, sink_failures,
                   arg, ret, op>>

\* line 383: table.lines[1:][0] of a table of fewer than two rows
TableIndexError ==
    /\ pc = "table" /\ ti <= Len(tables)
    /\ Len(tables[ti].lines) < 2
    /\ exc' = "IndexError"
    /\ pc' = "raised"
    /\ UNCHANGED <<files, fi, full_file, tables, ti, ri, latest_date, experiment_name,
                   indexed, logged, mined_dirs, sink_failures, arg, ret, op>>

\* lines 383-385: the sentinel test, then the rows table.lines[1:]
EnterTable ==
    /\ pc = "table" /\ ti <= Len(tables)
    /\ Len(tables[ti].lines) >= 2
    /\ ~is_sentinel(tables[ti].lines[2])
    /\ ri' = 2
    /\ pc' = "row"
    /\ UNCHANGED <<files, fi, full_file, tables, ti, latest_date, experiment_name,
                   indexed, logged, mined_dirs, exc, sink_failures, arg, ret, op>>

\* lines 386-392: the row is indexed
IndexRow ==
    /\ pc = "row"
    /\ LET line == tables[ti].lines[ri]
           nxt == next_row(tables, ti, ri)
       IN  /\ indexed' = Append(indexed,
                                [document |-> document_of(line, latest_date, experiment_name),
                                 ok |-> TRUE, src |-> <<ti, ri>>])
           /\ pc' = nxt.pc /\ ti' = nxt.ti /\ ri' = nxt.ri
    /\ UNCHANGED <<files, fi, full_file, tables, latest_date, experiment_name,
                   logged, mined_dirs, exc, sink_failures, arg, ret, op>>

\* lines 386-395: es.index raises BadRequestError
IndexBadRequest ==
    /\ pc = "row"
    /\ sink_failures < MaxSinkFailures
    /\ LET line == tables[ti].lines[ri]
           nxt == after_bad_request(tables, ti, ri)
       IN  /\ indexed' = Append(indexed,
                                [document |-> document_of(line, latest_date, experiment_name),
                                 ok |-> FALSE, src |-> <<ti, ri>>])
           /\ pc' = nxt.pc /\ ti' = nxt.ti /\ ri' = nxt.ri
    /\ logged' = Append(logged, "error: skipping line")
    /\ sink_failures' = sink_failures + 1
    /\ UNCHANGED <<files, fi, full_file, tables, latest_date, experiment_name,
                   mined_dirs, exc, arg, ret, op>>

\* line 398: add_mined_dir, and on to the next file
FileDone ==
    /\ pc = "table" /\ ti > Len(tables)
    /\ mined_dirs' = mined_dirs + 1
    /\ fi' = fi + 1
    /\ pc' = "files"
    /\ UNCHANGED <<files, full_file, tables, ti, ri, latest_date, experiment_name,
                   indexed, logged, exc, sink_failures, arg, ret, op>>

\* the loop over the files ends
Finish ==
    /\ pc = "files" /\ fi > Len(files)
    /\ pc' = "done"
    /\ UNCHANGED <<files, fi, full_file, tables, ti, ri, latest_date, experiment_name,
                   indexed, logged, mined_dirs, exc, sink_failures, arg, ret, op>>

Next ==
    \/ SkipFile
    \/ ReadFile
    \/ MineUnbound
    \/ MineNoTable
    \/ MineBadDate
    \/ MineTables
    \/ TableIndexError
    \/ EnterTable
    \/ IndexRow
    \/ IndexBadRequest
    \/ FileDone
    \/ Finish

Spec == Init /\ [][Next]_vars

-----------------------------------------------------------------------------
(* isolate_table on its own *)

\* segments a text is put together from
MaxSegments == 6

Segments == {<<HeaderLine>>, <<FooterLine>>, <<OtherLine>>,
             <<UnitsLine, UnitsLine, RowA>>}

RECURSIVE Concat(_)
Concat(seqs) == IF seqs = <<>> THEN <<>> ELSE Head(seqs) \o Concat(Tail(seqs))

\* the texts isolate_table is applied to: every sequence of segments, and
\* texts with a short header, an empty line and a header that holds a rule
TableTexts ==
    {Concat(ss) : ss \in UNION {[1..n -> Segments] : n \in 0..MaxSegments}} \cup
    {<<ShortHeaderLine, UnitsLine, UnitsLine, RowA, FooterLine>>,
     <<ShortHeaderLine, HeaderLine, <<>>, UnitsLine, UnitsLine, RowA, FooterLine>>,
     <<HeaderLine, FooterLine, HeaderRuleLine, OtherLine, OtherLine, RowA, FooterLine>>,
     <<HeaderLine, HeaderRuleLine, OtherLine, OtherLine, RowA, FooterLine>>}

Idle ==
    /\ files = <<>>
    /\ fi = 0
    /\ pc = "idle"
    /\ full_file = [bound |-> FALSE, text |-> <<>>]
    /\ tables = <<>>
    /\ ti = 0
    /\ ri = 0
    /\ latest_date = <<>>
    /\ experiment_name = <<>>
    /\ indexed = <<>>
    /\ logged = <<>>
    /\ mined_dirs = 0
    /\ exc = ""
    /\ sink_failures = 0

InitTable == Idle /\ arg \in TableTexts /\ ret = <<>> /\ op = ""

\* isolate_table(arg, header_regex): ret keeps the result and the index pairs
\* it was sliced from
CallIsolateTable ==
    /\ op = ""
    /\ ret' = [pairs |-> isolate_pairs(arg), result |-> isolate_table(arg)]
    /\ op' = "isolate_table"
    /\ UNCHANGED <<arg, mining_vars>>

SpecTable == InitTable /\ [][CallIsolateTable]_vars

-----------------------------------------------------------------------------
(* remove_formatting on its own *)

\* tables handed to remove_formatting
MaxTables == 2

\* lines of a table
MaxTableLines == 2

FormatLines == {RowA, RowS, RowBad}

FormatTables == {Table(ls) : ls \in UNION {[1..n -> FormatLines] : n \in 0..MaxTableLines}}

InitFormat ==
    /\ Idle
    /\ arg \in UNION {[1..n -> FormatTables] : n \in 0..MaxTables}
    /\ ret = <<>>
    /\ op = ""

\* remove_formatting(arg)
CallRemoveFormatting ==
    /\ op = ""
    /\ ret' = remove_formatting(arg)
    /\ op' = "remove_formatting"
    /\ UNCHANGED <<arg, mining_vars>>

\* remove_formatting applied to the tables it returned
CallRemoveFormattingAgain ==
    /\ op = "remove_formatting"
    /\ ret.exc = ""
    /\ arg' = ret.tables
    /\ ret' = remove_formatting(ret.tables)
    /\ op' = "remove_formatting again"
    /\ UNCHANGED mining_vars

SpecFormat == InitFormat /\ [][CallRemoveFormatting \/ CallRemoveFormattingAgain]_vars

-----------------------------------------------------------------------------
(* line_to_dataclass on its own *)

\* the tokens of the rows
TokenPool == <<<<"a">>,
               <<"n", "a", "m", "e", "1">>,
               <<"1">>,
               <<"2", ".", "0">>,
               <<"1", "3", "s">>,
               <<"1", "5", "m", "1", "6", "s">>,
               <<"0", ".", "0">>,
               <<"-", "5", ".", "0">>,
               <<"a", "b", "c", "s">>,
               <<"-", "0">>,
               <<"1", ".", "5", "(", "s", ")">>,
               <<"a", "1", "m", "2", "s", "b", "s">>,
               <<"+", "5">>,
               <<>>>>

\* the rows line_to_dataclass is applied to: every row of up to MaxShortRow
\* pool tokens, and for each greater length up to MaxRowLen the rows that
\* run through the pool from each of its tokens on
RowInputs ==
    UNION {[1..n -> {TokenPool[k] : k \in 1..Len(TokenPool)}] : n \in 0..MaxShortRow} \cup
    {[i \in 1..n |-> TokenPool[((k + i) % Len(TokenPool)) + 1]] :
        n \in (MaxShortRow + 1)..MaxRowLen, k \in 1..Len(TokenPool)}

InitRow == Idle /\ arg \in RowInputs /\ ret = <<>> /\ op = ""

\* line_to_dataclass(arg)
CallLineToDataclass ==
    /\ op = ""
    /\ ret' = line_to_dataclass(arg)
    /\ op' = "line_to_dataclass"
    /\ UNCHANGED <<arg, mining_vars>>

SpecRow == InitRow /\ [][CallLineToDataclass]_vars

-----------------------------------------------------------------------------
(* Properties of log_mining (specification Spec) *)

\* where the indexed documents come from: <<table, row>>, in the order of
\* the es.index calls
Sources(entries) == [k \in 1..Len(entries) |-> entries[k].src]

RECURSIVE RowsOf(_, _, _)
\* <<k, i>> for the rows i >= first of the tables k, k from the given one on,
\* table after table
RowsOf(tbls, k, first) ==
    IF k > Len(tbls) THEN <<>>
    ELSE [j \in 1..(Len(tbls[k].lines) - first + 1) |-> <<k, first + j - 1>>]
         \o RowsOf(tbls, k + 1, first)

\* the rows remove_formatting retained
RetainedRows(tbls) == RowsOf(tbls, 1, 1)

\* log_mining is through with the tables of the file, normally or by IndexError
TablesLeft ==
    \/ pc = "table" /\ ti > Len(tables)
    \/ pc = "raised" /\ exc = "IndexError"

\* C1: when log_mining is through with the tables of a file, the documents
\* handed to the sink are exactly the rows remove_formatting retained, one
\* document for each retained row of each table
C1_RecordIffRowRetained == TablesLeft => Sources(indexed) = RetainedRows(tables)

\* the file the loop is at is a LOG. file that read_logfile fails on
AtUnreadableFile ==
    /\ fi <= Len(files)
    /\ is_log_file(files[fi])
    /\ read_logfile(files[fi]).exc # ""

\* C3: after read_logfile failed for a file, log_mining does nothing more with
\* that file: it does not raise, searches no table and indexes no document,
\* but stands at the next file
C3_ReadFailureSkipsTheFile == AtUnreadableFile => pc \in {"files", "mine"}

\* the rows the loops of lines 382-385 have been through when they stand at
\* row r of table t: the rows after the first of each table
RowsBefore(tbls, t, r) ==
    RowsOf(SubSeq(tbls, 1, t - 1), 1, 2) \o
    (IF t <= Len(tbls) THEN [j \in 1..(r - 2) |-> <<t, j + 1>>] ELSE <<>>)

C5_NoTableSkipsOnlyThatFile ==
    pc = "done" => \A k \in (fi + 1)..Len(files) : ~is_log_file(files[k])

\* the latest of a non-empty list of datetimes
LatestOf(dts) ==
    CHOOSE d \in {dts[k] : k \in 1..Len(dts)} :
        \A k \in 1..Len(dts) : ~DtLess(d, dts[k])

\* C6: the time_stamp of every document of a file whose text holds dates is
\* the latest of the datetimes collect_time_stamp returns for the text
C6_TimeStampIsLatest ==
    LET stamps == collect_time_stamp(full_file.text)
    IN  (indexed # <<>> /\ stamps.exc = "" /\ stamps.typ = "list") =>
            \A k \in 1..Len(indexed) :
                indexed[k].document.time_stamp = LatestOf(stamps.date_objects)

-----------------------------------------------------------------------------
(* Properties of isolate_table (specification SpecTable) *)

\* no body shares a line with another body, nor holds the header or the
\* footer of another table
NoOverlap(pairs) ==
    \A k, l \in 1..Len(pairs) :
        k # l => /\ BodyIndices(pairs[k]) \cap BodyIndices(pairs[l]) = {}
                 /\ pairs[l][1] \notin BodyIndices(pairs[k])
                 /\ pairs[l][2] \notin BodyIndices(pairs[k])

\* C2 as stated: the tables isolate_table returns never overlap, whatever the
\* order of the header and footer lines
C2_TablesNeverOverlap == op = "isolate_table" => NoOverlap(ret.pairs)

\* a footer line stands between any two successive qualifying header lines
HeadersSeparated(text) ==
    LET log_file == log_file_of(text)
        hs == header_lines_of(log_file)
        fs == footer_lines_of(log_file)
    IN  \A k \in 1..(Len(hs) - 1) :
            \E j \in 1..Len(fs) : hs[k] < fs[j] /\ fs[j] < hs[k + 1]

\* C2 amended: the tables isolate_table returns do not overlap when a footer
\* line stands between any two successive qualifying header lines
C2_SeparatedTablesDoNotOverlap ==
    (op = "isolate_table" /\ HeadersSeparated(arg)) => NoOverlap(ret.pairs)

\* two tables with rows, their headers separated by a footer
C2_Witness ==
    /\ op = "isolate_table"
    /\ HeadersSeparated(arg)
    /\ Len(ret.pairs) >= 2
    /\ \A k \in 1..Len(ret.pairs) : BodyIndices(ret.pairs[k]) # {}
    /\ \A k \in 1..Len(ret.pairs) : ret.result.tables[k].lines # <<>>

-----------------------------------------------------------------------------
(* Properties of remove_formatting (specification SpecFormat) *)

\* C7 as stated: remove_formatting applied to the tables it returned ends
\* without error and returns the same rows
C7_Idempotent ==
    op = "remove_formatting again" => ret.exc = "" /\ ret.tables = arg

\* C7 amended: remove_formatting applied to the tables it returned leaves the
\* rows of every table as they are, in the same order; it ends without error
\* when no table holds a row, and raises TypeError otherwise
C7_RowsKeptTypeErrorOnRows ==
    op = "remove_formatting again" =>
        /\ ret.tables = arg
        /\ ret.exc = (IF \A k \in 1..Len(arg) : arg[k].lines = <<>>
                      THEN "" ELSE "TypeError")

\* normalized tables, one without rows and one with two rows, handed back
C7_Witness ==
    /\ op = "remove_formatting again"
    /\ \E k \in 1..Len(arg) : Len(arg[k].lines) >= 2
    /\ \E k \in 1..Len(arg) : arg[k].lines = <<>>

-----------------------------------------------------------------------------
(* Properties of line_to_dataclass (specification SpecRow) *)

\* the token becomes a number: float() takes it, or the duration rule does
BecomesNumber(token) ==
    \/ FloatParses(token)
    \/ /\ EndsWith(token, <<"s">>)
       /\ \/ IsDecimal(SubSeq(token, 1, Len(token) - 1))
          \/ MinSecMatches(token) # {}

\* the tokens that do not become numbers are stored as they are
TextKept(line, rec) ==
    \A i \in 1..Len(line) :
        ~BecomesNumber(line[i]) => rec[attribute_names[i]] = <<PyStr(line[i])>>

AllEmpty(rec) == \A f \in FieldNames : rec[f] = <<>>

\* C9 as stated: a row that is empty or of a length other than 12 and 13
\* gives a record with all thirteen fields empty
C9_OtherLengthsGiveEmptyRecord ==
    (op = "line_to_dataclass" /\ Len(arg) \notin {12, 13}) =>
        ret.exc = "" /\ AllEmpty(ret.rec)

\* C9 amended: the empty row gives a record with all thirteen fields empty;
\* a row of 1 to 11 tokens gives a record that holds its tokens, and a row
\* of more than 13 tokens raises IndexError
C9_OnlyEmptyRowGivesEmptyRecord ==
    op = "line_to_dataclass" =>
        /\ Len(arg) = 0 => ret.exc = "" /\ AllEmpty(ret.rec)
        /\ Len(arg) \in 1..11 => ret.exc = "" /\ ~AllEmpty(ret.rec)
        /\ Len(arg) > Len(attribute_names) => ret.exc = "IndexError"

\* the empty row has been mapped
C9_Witness == op = "line_to_dataclass" /\ arg = <<>> /\ AllEmpty(ret.rec)

\* C10: for a row of n <= 13 tokens, field i holds the value of token i and
\* nothing else for i <= n, and the fields after the n-th are empty
C10_TokensGoToFieldsByPosition ==
    (op = "line_to_dataclass" /\ Len(arg) <= Len(attribute_names)) =>
        /\ ret.exc = ""
        /\ \A i \in 1..Len(attribute_names) :
              ret.rec[attribute_names[i]] =
                  IF i <= Len(arg) THEN <<ConvertToken(arg[i])>> ELSE <<>>

\* a row of 12 tokens mapped: total_avg holds a value, pe is empty
C10_Witness ==
    /\ op = "line_to_dataclass"
    /\ Len(arg) = 12
    /\ Len(ret.rec["total_avg"]) = 1
    /\ ret.rec["pe"] = <<>>

-----------------------------------------------------------------------------
(* The duration rule of line_to_dataclass (specification SpecRow) *)

\* the token is <m>m<s>s from its first to its last character
ExactMinSec(token) ==
    \E j \in 2..(Len(token) - 2) :
        /\ token[j] = "m"
        /\ token[Len(token)] = "s"
        /\ IsDigitStr(SubSeq(token, 1, j - 1))
        /\ IsDigitStr(SubSeq(token, j + 1, Len(token) - 1))

\* m * 60 + s of a token that is <m>m<s>s
ExactMinSecValue(token) ==
    LET j == CHOOSE j \in 1..Len(token) : token[j] = "m"
    IN  ToNat(SubSeq(token, 1, j - 1)) * 60 + ToNat(SubSeq(token, j + 1, Len(token) - 1))

\* the token is <n>s with a decimal number n
ExactSeconds(token) ==
    EndsWith(token, <<"s">>) /\ IsDecimal(SubSeq(token, 1, Len(token) - 1))

\* the number n as a field holds it: zero is held as the int 0
StoredNumber(n) == IF n = 0 THEN PyInt(0) ELSE PyFloat(n)

\* what the record returned for arg holds for the token at position i
StoredFor(i) == ret.rec[attribute_names[i]][1]

\* the first two forms of the duration rule: <m>m<s>s is stored as m * 60 + s
\* and <n>s as n, at any position
ExactDurationsConverted ==
    (op = "line_to_dataclass" /\ ret.exc = "") =>
        \A i \in 1..Len(arg) :
            /\ ExactMinSec(arg[i]) =>
                   StoredFor(i) = StoredNumber(ExactMinSecValue(arg[i]) * Scale)
            /\ ExactSeconds(arg[i]) =>
                   StoredFor(i) = StoredNumber(DecimalValue(SubSeq(arg[i], 1, Len(arg[i]) - 1)))

\* C11: at any position a token that is exactly <m>m<s>s is stored as the
\* number m * 60 + s, a token <n>s with a decimal number n is stored as n, and
\* a token ending in "s" that is of neither form is not converted to a
\* duration: it is stored as the text it is
C11_DurationRuleExact ==
    /\ ExactDurationsConverted
    /\ (op = "line_to_dataclass" /\ ret.exc = "") =>
           \A i \in 1..Len(arg) :
               (/\ EndsWith(arg[i], <<"s">>)
                /\ ~ExactMinSec(arg[i])
                /\ ~ExactSeconds(arg[i])) => StoredFor(i) = PyStr(arg[i])

-----------------------------------------------------------------------------
(* The pairing of headers and footers in isolate_table (specification SpecTable) *)

\* the elements of a sequence
Range(seq) == {seq[k] : k \in 1..Len(seq)}

\* the footers that the headers before h have consumed, by the pairs returned
ConsumedBefore(pairs, h) == {pairs[l][2] : l \in {l \in 1..Len(pairs) : pairs[l][1] < h}}

\* the footers after h that no earlier header has consumed
FootersLeftFor(pairs, footers, h) ==
    {f \in footers : f > h} \ ConsumedBefore(pairs, h)

\* C12: the tables come in increasing order of their headers; every retained
\* header h with a footer after it that no earlier header has consumed has a
\* table, closed by the smallest such footer; a retained header without such
\* a footer has no table; no footer closes two tables, and there are no more
\* tables than footer lines
C12_NearestUnusedFooter ==
    op = "isolate_table" =>
        LET log_file == log_file_of(arg)
            headers == Range(header_lines_of(log_file))
            footers == Range(footer_lines_of(log_file))
            pairs == ret.pairs
        IN  /\ \A k \in 1..(Len(pairs) - 1) : pairs[k][1] < pairs[k + 1][1]
            /\ \A k \in 1..Len(pairs) :
                  /\ pairs[k][1] \in headers
                  /\ FootersLeftFor(pairs, footers, pairs[k][1]) # {}
                  /\ pairs[k][2] = Min(FootersLeftFor(pairs, footers, pairs[k][1]))
            /\ \A h \in headers :
                  (\A k \in 1..Len(pairs) : pairs[k][1] # h) =>
                      FootersLeftFor(pairs, footers, h) = {}
            /\ \A k, l \in 1..Len(pairs) : k # l => pairs[k][2] # pairs[l][2]
            /\ Len(pairs) <= Cardinality(footers)
            /\ Len(ret.result.tables) = Len(pairs)

\* two tables, the second closed by a footer beyond one that an earlier header
\* has consumed, and a third header left without table
C12_Witness ==
    /\ op = "isolate_table"
    /\ Len(ret.pairs) >= 2
    /\ \E k \in 2..Len(ret.pairs) :
           \E l \in 1..(k - 1) :
               ret.pairs[k][1] < ret.pairs[l][2] /\ ret.pairs[l][2] < ret.pairs[k][2]
    /\ \E h \in Range(header_lines_of(log_file_of(arg))) :
           \A k \in 1..Len(ret.pairs) : ret.pairs[k][1] # h

-----------------------------------------------------------------------------
(* process_line on its own *)

\* the greatest number of cells of a line
MaxCells == 3

\* the cells of the lines: words, numbers, durations and numbers with "(s)"
CellPool == {<<"a">>,
             <<"L">>,
             <<"1", ".", "5">>,
             <<"1", "m", "3", "7", "s">>,
             <<"2", ".", "5", "(", "s", ")">>,
             <<"3", "(", "s", ")">>,
             <<"(", "s", ")">>}

\* the rows of cells the lines are made of
CellRows == UNION {[1..n -> CellPool] : n \in 1..MaxCells}

RECURSIVE JoinCells(_)
\* the line of a table with these cells: the cells two spaces apart, the line
\* stripped as Table.__init__ leaves it
JoinCells(cells) ==
    IF Len(cells) = 1 THEN cells[1]
    ELSE cells[1] \o <<" ", " ">> \o JoinCells(Tail(cells))

InitLine == Idle /\ arg \in CellRows /\ ret = <<>> /\ op = ""

\* process_line(line) for the line with the cells arg
CallProcessLine ==
    /\ op = ""
    /\ ret' = [line |-> JoinCells(arg), elements |-> process_line(JoinCells(arg))]
    /\ op' = "process_line"
    /\ UNCHANGED <<arg, mining_vars>>

SpecLine == InitLine /\ [][CallProcessLine]_vars

\* the cell without its "(s)", when it is <digits>[.<digits>](s)
WithoutUnit(cell) ==
    IF is_number_with_s(cell) THEN SubSeq(cell, 1, Len(cell) - 3) ELSE cell

\* the tokens before position i that process_line takes out of any line: the
\* "L" cells a line starts with
LeadingL(cells) ==
    Cardinality({i \in 1..Len(cells) : \A j \in 1..i : cells[j] = <<"L">>})

\* C13: every cell <digits>[.<digits>](s) of a line is among the tokens
\* process_line returns, unchanged and at the position of the cell, and the
\* line has as many tokens as the same line with the "(s)" taken off its cells
C13_UnitTokensLeftIntact ==
    op = "process_line" =>
        /\ \A i \in 1..Len(arg) :
              is_number_with_s(arg[i]) =>
                  /\ i - LeadingL(arg) \in 1..Len(ret.elements)
                  /\ ret.elements[i - LeadingL(arg)] = arg[i]
        /\ Len(ret.elements) =
               Len(process_line(JoinCells([i \in 1..Len(arg) |-> WithoutUnit(arg[i])])))

====
